---- MODULE Spec2Model ----
(***************************************************************************)
(* A model of the two patch scripts of usa-tax-calculator-2025:            *)
(*   src/update_diagnostic_phases.py   the phase-insertion pass            *)
(*   src/scripts/fix-state-brackets.py the per-state bracket fix           *)
(* Text is a sequence of tokens; the concatenation of the tokens is the    *)
(* text the scripts read and write.  Every substring, regular expression   *)
(* and slice of the source is computed on the token sequence.              *)
(***************************************************************************)
EXTENDS Integers, Sequences, FiniteSets, TLC

VARIABLES
  disk,                  \* computeFederal2025.ts: the text on disk
  pc,                    \* position of main(): "start", "loop", "done" ("idle": not run)
  lines,                 \* main(): lines = f.readlines()
  i,                     \* main(): the 1-based number of the next line
  updated_lines,         \* main(): updated_lines
  in_push_call,          \* main(): in_push_call
  push_call_lines,       \* main(): push_call_lines
  push_call_start_line,  \* main(): push_call_start_line
  calls,                 \* every call of add_phase_to_diagnostic so far
  wrote,                 \* whether main() has written the file
  runs,                  \* completed runs of main()
  files,                 \* compute<STATE>2025.ts of every state: text or Missing
  idx,                   \* fix-state-brackets.py: position in states_to_fix
  pcB,                   \* fix-state-brackets.py: "loop", "done" ("idle": not run)
  log,                   \* the outcome printed for each state, in order
  nreads,                \* reads of each state's file in the current run
  nwrites,               \* writes of each state's file in the current run
  files0,                \* the files as the current run found them
  bruns                  \* completed runs of fix-state-brackets.py

phaseVars == <<disk, pc, lines, i, updated_lines, in_push_call,
               push_call_lines, push_call_start_line, calls, wrote, runs>>

bracketVars == <<files, idx, pcB, log, nreads, nwrites, files0, bruns>>

vars == <<phaseVars, bracketVars>>

None == "None"
\* a path with no file, and a file with its text
Missing == [exists |-> FALSE, content |-> <<>>]
File(c) == [exists |-> TRUE, content |-> c]

(***************************************************************************)
(* Python's str operations on token sequences                              *)
(***************************************************************************)
Min(a, b) == IF a < b THEN a ELSE b
Max(a, b) == IF a > b THEN a ELSE b

\* t in s
Contains(s, t) == \E k \in 1..Len(s) : s[k] = t

\* sub in s, for a multi-token substring
ContainsSub(s, sub) ==
  \E k \in 1..(Len(s) - Len(sub) + 1) : SubSeq(s, k, k + Len(sub) - 1) = sub

\* the whitespace tokens: what str.rstrip() strips and \s matches
IsSpace(t) == t \in {" ", "\n", "\n  "}

\* s.rstrip()
RStrip(s) ==
  LET keep == {k \in 1..Len(s) : ~IsSpace(s[k])}
  IN IF keep = {} THEN <<>>
     ELSE SubSeq(s, 1, CHOOSE k \in keep : \A m \in keep : m <= k)

\* s.endswith(suf)
EndsWith(s, suf) ==
  Len(s) >= Len(suf) /\ SubSeq(s, Len(s) - Len(suf) + 1, Len(s)) = suf

\* s.rfind(t): the 0-based index of the last t, -1 when there is none
RFind(s, t) ==
  LET at == {k \in 1..Len(s) : s[k] = t}
  IN IF at = {} THEN -1
     ELSE (CHOOSE k \in at : \A m \in at : m <= k) - 1

\* s[:p] and s[p:] with Python's reading of a negative index
PyPrefix(s, p) ==
  IF p >= 0 THEN SubSeq(s, 1, Min(p, Len(s)))
  ELSE SubSeq(s, 1, Max(Len(s) + p, 0))
PySuffix(s, p) ==
  IF p >= 0 THEN SubSeq(s, Min(p, Len(s)) + 1, Len(s))
  ELSE SubSeq(s, Max(Len(s) + p, 0) + 1, Len(s))

\* s[:p] + ins + s[p:]
PyInsert(s, p, ins) == PyPrefix(s, p) \o ins \o PySuffix(s, p)

\* the largest and the smallest element of a non-empty set of numbers
SetMax(S) == CHOOSE k \in S : \A m \in S : m <= k
SetMin(S) == CHOOSE k \in S : \A m \in S : k <= m

\* ''.join(ls) and f.writelines(ls); the list is halved to keep the
\* evaluation shallow on long files
RECURSIVE Join(_)
Join(ls) ==
  IF ls = <<>> THEN <<>>
  ELSE IF Len(ls) = 1 THEN ls[1]
  ELSE LET h == Len(ls) \div 2
       IN Join(SubSeq(ls, 1, h)) \o Join(SubSeq(ls, h + 1, Len(ls)))

\* s.splitlines(True) and f.readlines(): the text is cut after every line
\* break, each line keeps its own; the text is halved at a line break near
\* its middle to keep the evaluation shallow on long files
RECURSIVE SplitLines(_)
SplitLines(s) ==
  IF s = <<>> THEN <<>>
  ELSE LET inner == {k \in 1..(Len(s) - 1) : s[k] = "\n"}
           left == {k \in inner : k <= (Len(s) + 1) \div 2}
       IN IF inner = {} THEN <<s>>
          ELSE LET k == IF left # {} THEN SetMax(left) ELSE SetMin(inner)
               IN SplitLines(SubSeq(s, 1, k))
                    \o SplitLines(SubSeq(s, k + 1, Len(s)))

(***************************************************************************)
(* update_diagnostic_phases.py                                             *)
(***************************************************************************)
PHASE_MAPPINGS ==
  << <<64, 76, "self-employment">>,
     <<87, 104, "qbi">>,
     <<109, 127, "nol">>,
     <<132, 200, "income-tax">>,
     <<253, 410, "agi">>,
     <<600, 700, "deductions">>,
     <<750, 850, "additional-taxes">>,
     <<1000, 1100, "credits">>,
     <<1100, 1150, "input-validation">> >>

\* the for loop of get_phase_for_line, from entry k on
RECURSIVE PhaseScan(_, _)
PhaseScan(k, line_num) ==
  IF k > Len(PHASE_MAPPINGS) THEN None
  ELSE IF PHASE_MAPPINGS[k][1] <= line_num /\ line_num <= PHASE_MAPPINGS[k][2]
       THEN PHASE_MAPPINGS[k][3]
       ELSE PhaseScan(k + 1, line_num)

\* get_phase_for_line with the end of each range left out of it
RECURSIVE PhaseScanHalfOpen(_, _)
PhaseScanHalfOpen(k, line_num) ==
  IF k > Len(PHASE_MAPPINGS) THEN None
  ELSE IF PHASE_MAPPINGS[k][1] <= line_num /\ line_num < PHASE_MAPPINGS[k][2]
       THEN PHASE_MAPPINGS[k][3]
       ELSE PhaseScanHalfOpen(k + 1, line_num)
get_phase_half_open(line_num) == PhaseScanHalfOpen(1, line_num)

get_phase_for_line(line_num) == PhaseScan(1, line_num)

\* the tokens that re.search(r"'[A-Z]+-[EW]-\d+'", ...) matches
CodeTokens == {"'CODE-W-001'", "'CODE-E-001'"}

\* code_match.end() as a count of tokens, -1 when re.search returns None
CodeMatchEnd(s) ==
  LET at == {k \in 1..Len(s) : s[k] \in CodeTokens}
  IN IF at = {} THEN -1 ELSE CHOOSE k \in at : \A m \in at : k <= m

\* f", phase: '{phase}'"
PhaseField(phase) == <<",", " ", "phase:", " ", "'", phase, "'">>
\* f", {{ phase: '{phase}' }}"
PhaseObject(phase) ==
  <<",", " ", "{", " ", "phase:", " ", "'", phase, "'", " ", "}">>

add_phase_to_diagnostic(full_call, line_num) ==
  IF Contains(full_call, "phase:") THEN full_call
  ELSE
    LET phase == get_phase_for_line(line_num) IN
    IF phase = None THEN full_call
    ELSE IF EndsWith(RStrip(full_call), <<"}", ")", ";">>)
      THEN PyInsert(full_call, RFind(full_call, "}"), PhaseField(phase))
    ELSE IF EndsWith(RStrip(full_call), <<")", ";">>)
      THEN IF Contains(full_call, "{")
           THEN PyInsert(full_call, RFind(full_call, "}"), PhaseField(phase))
           ELSE IF CodeMatchEnd(full_call) # -1
                THEN PyInsert(full_call, CodeMatchEnd(full_call),
                              PhaseObject(phase))
                ELSE full_call
    ELSE full_call

\* re.search(r'pushWarning\(|pushError\(', line)
StartsCall(line) == Contains(line, "pushWarning(") \/ Contains(line, "pushError(")

\* ClosesCall looking for ')' alone
ClosesCallParen(line) == Contains(line, ")")

\* ');' in line
ClosesCall(line) == ContainsSub(line, <<")", ";">>)

(***************************************************************************)
(* The files main() is run on: PadLines filler lines, then a tail of at    *)
(* most MaxTail lines out of LineKinds; the last line of the file may be a *)
(* closing line without its line break                                     *)
(***************************************************************************)
MaxTail == 3
MaxRuns == 2

Filler       == <<"x", "\n">>
OpenCall     == <<"pushWarning(", "x", ",", "\n">>
OneLineCall  == <<"pushError(", "x", ",", " ", "'CODE-E-001'", ")", ";", "\n">>
OpenBrace    == <<"{", " ", "x", "\n">>
CloseBrace   == <<"}", ")", ";", "\n">>
ClosePlain   == <<")", ";", "\n">>
CloseComment == <<"}", ")", ";", " ", "x", "\n">>
PhaseLine    == <<"phase:", " ", "f(", "x", ")", ",", "\n">>

LineKinds == {OpenCall, OneLineCall, OpenBrace, CloseBrace, ClosePlain,
              CloseComment, PhaseLine}

\* the line with its line break removed
Chop(s) == SubSeq(s, 1, Len(s) - 1)

LastLineKinds == LineKinds \cup {Chop(ClosePlain), Chop(CloseBrace)}

Pad(n) == [k \in 1..n |-> Filler]

\* the tail starts on the last line of the first phase range
PadLines == PHASE_MAPPINGS[1][2] - 1
\* one file whose call starts on the line that two ranges share
DeepPadLines == PHASE_MAPPINGS[9][1] - 1

Tails ==
  UNION {{Append(t, l) : t \in [1..(n - 1) -> LineKinds], l \in LastLineKinds} :
           n \in 1..MaxTail}

InputFiles ==
  {Join(Pad(PadLines) \o t) : t \in Tails}
    \cup {Join(Pad(DeepPadLines) \o <<OneLineCall, ClosePlain>>)}

PhasesStart ==
  /\ pc = "start"
  /\ lines = <<>>
  /\ i = 1
  /\ updated_lines = <<>>
  /\ in_push_call = FALSE
  /\ push_call_lines = <<>>
  /\ push_call_start_line = 0
  /\ calls = <<>>
  /\ wrote = FALSE
  /\ runs = 0

\* lines 79-85: read the file, set up the scan
ReadFile ==
  /\ UNCHANGED bracketVars
  /\ pc = "start"
  /\ lines' = SplitLines(disk)
  /\ i' = 1
  /\ updated_lines' = <<>>
  /\ in_push_call' = FALSE
  /\ push_call_lines' = <<>>
  /\ push_call_start_line' = 0
  /\ calls' = <<>>
  /\ wrote' = FALSE
  /\ pc' = "loop"
  /\ UNCHANGED <<disk, runs>>

\* lines 89-92: the line starts a pushWarning or pushError call
StepStart ==
  /\ UNCHANGED bracketVars
  /\ pc = "loop" /\ i <= Len(lines)
  /\ StartsCall(lines[i])
  /\ in_push_call' = TRUE
  /\ push_call_start_line' = i
  /\ push_call_lines' = <<lines[i]>>
  /\ i' = i + 1
  /\ UNCHANGED <<disk, pc, lines, updated_lines, calls, wrote, runs>>

\* lines 93-96: a line inside a call that does not close it
StepAppend ==
  /\ UNCHANGED bracketVars
  /\ pc = "loop" /\ i <= Len(lines)
  /\ ~StartsCall(lines[i])
  /\ in_push_call
  /\ ~ClosesCall(lines[i])
  /\ push_call_lines' = Append(push_call_lines, lines[i])
  /\ i' = i + 1
  /\ UNCHANGED <<disk, pc, lines, updated_lines, in_push_call,
                 push_call_start_line, calls, wrote, runs>>

\* lines 93-109: the line closes the call, the call is processed
StepClose ==
  /\ UNCHANGED bracketVars
  /\ pc = "loop" /\ i <= Len(lines)
  /\ ~StartsCall(lines[i])
  /\ in_push_call
  /\ ClosesCall(lines[i])
  /\ LET full_call == Join(Append(push_call_lines, lines[i]))
         updated_call == add_phase_to_diagnostic(full_call, push_call_start_line)
     IN /\ updated_lines' = updated_lines \o SplitLines(updated_call)
        /\ calls' = Append(calls, [span |-> full_call,
                                   line_num |-> push_call_start_line,
                                   at |-> i,
                                   result |-> updated_call])
  /\ in_push_call' = FALSE
  /\ push_call_lines' = <<>>
  /\ i' = i + 1
  /\ UNCHANGED <<disk, pc, lines, push_call_start_line, wrote, runs>>

\* lines 110-111: a line outside any call is copied
StepCopy ==
  /\ UNCHANGED bracketVars
  /\ pc = "loop" /\ i <= Len(lines)
  /\ ~StartsCall(lines[i])
  /\ ~in_push_call
  /\ updated_lines' = Append(updated_lines, lines[i])
  /\ i' = i + 1
  /\ UNCHANGED <<disk, pc, lines, in_push_call, push_call_lines,
                 push_call_start_line, calls, wrote, runs>>

\* lines 113-117: the loop is over, the file is written
WriteFile ==
  /\ UNCHANGED bracketVars
  /\ pc = "loop" /\ i > Len(lines)
  /\ disk' = Join(updated_lines)
  /\ wrote' = TRUE
  /\ runs' = runs + 1
  /\ pc' = "done"
  /\ UNCHANGED <<lines, i, updated_lines, in_push_call, push_call_lines,
                 push_call_start_line, calls>>

\* the script is run again on the file it left
RunAgain ==
  /\ UNCHANGED bracketVars
  /\ pc = "done"
  /\ runs < MaxRuns
  /\ pc' = "start"
  /\ UNCHANGED <<disk, lines, i, updated_lines, in_push_call, push_call_lines,
                 push_call_start_line, calls, wrote, runs>>

(***************************************************************************)
(* scripts/fix-state-brackets.py                                           *)
(***************************************************************************)
states_to_fix ==
  <<"DE", "HI", "ID", "KS", "MS", "MT", "ND", "OK", "RI", "UT", "VT", "WV">>

States == {states_to_fix[k] : k \in 1..Len(states_to_fix)}

\* the identifiers the files use as the first argument of the call
Idents == {"stateTaxableIncome", "taxableIncome", "income", "fullBrackets"}
\* those that match \w+Taxable(?:Income)?
PrimaryIdents == {"stateTaxableIncome"}

CalcOpen    == "calculateTaxFromBrackets("
RulesSuffix == "_RULES_2025.brackets[filingStatus]"
ConstTax    == "const taxBeforeCredits = "
ConstFull   == "const fullBrackets = convertToFullBrackets("

\* \s* from token q on: the index of the first token that is not whitespace
SkipSpace(c, q) ==
  LET non == {k \in q..Len(c) : ~IsSpace(c[k])}
  IN IF non = {} THEN Len(c) + 1 ELSE SetMin(non)

\* a match at token p of
\*   calculateTaxFromBrackets\((ident),\s*{state}_RULES_2025\.brackets\[filingStatus\]\)
\* with ident out of idents: the index of its last token, 0 when there is none
CallMatchEnd(c, p, idents, state) ==
  IF p >= 1 /\ p + 2 <= Len(c) /\ c[p] = CalcOpen /\ c[p + 1] \in idents
     /\ c[p + 2] = ","
  THEN LET q == SkipSpace(c, p + 3)
       IN IF q + 2 <= Len(c) /\ c[q] = state /\ c[q + 1] = RulesSuffix
             /\ c[q + 2] = ")"
          THEN q + 2 ELSE 0
  ELSE 0

\* re.search(pattern, content): the token the first match starts at, 0 for None
SearchCall(c, idents, state) ==
  LET ps == {p \in 1..Len(c) : CallMatchEnd(c, p, idents, state) # 0}
  IN IF ps = {} THEN 0 ELSE SetMin(ps)

\* lines 25-35: match.group(1) of the primary pattern, else of the alternate
\* pattern, None when neither matches
taxable_var(content, state) ==
  LET p1 == SearchCall(content, PrimaryIdents, state)
      p2 == SearchCall(content, Idents, state)
  IN IF p1 # 0 THEN content[p1 + 1]
     ELSE IF p2 # 0 THEN content[p2 + 1]
     ELSE None

\* lines 38-39: the replacement text
replacement(v, state) ==
  <<ConstFull, state, RulesSuffix, ")", ";", "\n  ",
    ConstTax, CalcOpen, v, ",", " ", "fullBrackets", ")">>

\* a match of old_pattern at token p: the index of its last token, 0 for none
OldMatchEnd(c, p, v, state) ==
  IF p <= Len(c) /\ c[p] = ConstTax
  THEN LET e == CallMatchEnd(c, p + 1, {v}, state)
       IN IF e # 0 /\ e + 1 <= Len(c) /\ c[e + 1] = ";" THEN e + 1 ELSE 0
  ELSE 0

\* re.sub(old_pattern, replacement, content), from token p on
RECURSIVE SubFrom(_, _, _, _)
SubFrom(c, p, v, state) ==
  IF p > Len(c) THEN <<>>
  ELSE LET e == OldMatchEnd(c, p, v, state)
       IN IF e # 0 THEN replacement(v, state) \o SubFrom(c, e + 1, v, state)
          ELSE <<c[p]>> \o SubFrom(c, p + 1, v, state)

new_content(content, state) ==
  SubFrom(content, 1, taxable_var(content, state), state)

\* the state the loop is at
state == states_to_fix[idx]

Outcome(s, what, v) == [state |-> s, outcome |-> what, taxable_var |-> v]

\* FileNotFound leaving the loop (break) instead of going on (continue)
FileNotFoundBreak ==
  /\ UNCHANGED phaseVars
  /\ pcB = "loop" /\ idx <= Len(states_to_fix)
  /\ ~files[states_to_fix[idx]].exists
  /\ log' = Append(log, [state |-> states_to_fix[idx],
                         outcome |-> "MissingFile", taxable_var |-> None])
  /\ idx' = Len(states_to_fix) + 1
  /\ UNCHANGED <<files, pcB, nreads, nwrites, files0, bruns>>

\* lines 17-19: the file does not exist
FileNotFound ==
  /\ UNCHANGED phaseVars
  /\ pcB = "loop" /\ idx <= Len(states_to_fix)
  /\ ~files[state].exists
  /\ log' = Append(log, Outcome(state, "MissingFile", None))
  /\ idx' = idx + 1
  /\ UNCHANGED <<files, pcB, nreads, nwrites, files0, bruns>>

\* lines 21-33, 52-53: neither pattern matches
CouldNotFind ==
  /\ UNCHANGED phaseVars
  /\ pcB = "loop" /\ idx <= Len(states_to_fix)
  /\ files[state].exists
  /\ taxable_var(files[state].content, state) = None
  /\ nreads' = [nreads EXCEPT ![state] = @ + 1]
  /\ log' = Append(log, Outcome(state, "NotFound", None))
  /\ idx' = idx + 1
  /\ UNCHANGED <<files, pcB, nwrites, files0, bruns>>

\* lines 21-46, 50-51: a pattern matches, the substitution changes nothing
NoChanges ==
  /\ UNCHANGED phaseVars
  /\ pcB = "loop" /\ idx <= Len(states_to_fix)
  /\ files[state].exists
  /\ taxable_var(files[state].content, state) # None
  /\ new_content(files[state].content, state) = files[state].content
  /\ nreads' = [nreads EXCEPT ![state] = @ + 1]
  /\ log' = Append(log, Outcome(state, "NoChanges",
                                taxable_var(files[state].content, state)))
  /\ idx' = idx + 1
  /\ UNCHANGED <<files, pcB, nwrites, files0, bruns>>

\* lines 21-49: a pattern matches, the new content is written
Fixed ==
  /\ UNCHANGED phaseVars
  /\ pcB = "loop" /\ idx <= Len(states_to_fix)
  /\ files[state].exists
  /\ taxable_var(files[state].content, state) # None
  /\ new_content(files[state].content, state) # files[state].content
  /\ nreads' = [nreads EXCEPT ![state] = @ + 1]
  /\ files' = [files EXCEPT ![state] = File(new_content(files[state].content, state))]
  /\ nwrites' = [nwrites EXCEPT ![state] = @ + 1]
  /\ log' = Append(log, Outcome(state, "Patched",
                                taxable_var(files[state].content, state)))
  /\ idx' = idx + 1
  /\ UNCHANGED <<pcB, files0, bruns>>

\* line 55: the loop is over
Complete ==
  /\ UNCHANGED phaseVars
  /\ pcB = "loop" /\ idx > Len(states_to_fix)
  /\ pcB' = "done"
  /\ bruns' = bruns + 1
  /\ UNCHANGED <<files, idx, log, nreads, nwrites, files0>>

\* the script is run again on the files it left
RunAgainB ==
  /\ UNCHANGED phaseVars
  /\ pcB = "done"
  /\ bruns < MaxRuns
  /\ pcB' = "loop"
  /\ idx' = 1
  /\ log' = <<>>
  /\ nreads' = [s \in States |-> 0]
  /\ nwrites' = [s \in States |-> 0]
  /\ files0' = files
  /\ UNCHANGED <<files, bruns>>

(***************************************************************************)
(* The files fix-state-brackets.py is run on                               *)
(***************************************************************************)
MaxSites == 2
MaxFiles == 3

\* the exact prior form, with and without a blank after the comma
Prior(v, s) ==
  <<ConstTax, CalcOpen, v, ",", " ", s, RulesSuffix, ")", ";", "\n">>
PriorTight(v, s) ==
  <<ConstTax, CalcOpen, v, ",", s, RulesSuffix, ")", ";", "\n">>
\* the call in another statement
Bare(v, s) ==
  <<"return ", CalcOpen, v, ",", " ", s, RulesSuffix, ")", ";", "\n">>
\* the two statements, written by hand
ByHand(v, s) == replacement(v, s) \o <<";", "\n">>

OtherState(s) == IF s = "DE" THEN "HI" ELSE "DE"

Chunks(s) ==
  {Prior("stateTaxableIncome", s), PriorTight("income", s),
   Bare("taxableIncome", s), ByHand("stateTaxableIncome", s),
   Prior("stateTaxableIncome", OtherState(s))}

\* every text of at most MaxSites chunks
Contents(s) ==
  {File(<<>>)} \cup
  UNION {{File(Join(t)) : t \in [1..n -> Chunks(s)]} : n \in 1..MaxSites}

\* one text for each condition a file can be in
Conditions == {"missing", "no match", "other statement", "prior form"}
BatchContent(s, cond) ==
  CASE cond = "missing" -> Missing
    [] cond = "no match" ->
         File(Join(<<Filler, Prior("stateTaxableIncome", OtherState(s))>>))
    [] cond = "other statement" -> File(Join(<<Filler, Bare("income", s)>>))
    [] cond = "prior form" -> File(Join(<<Filler, Prior("income", s), Filler>>))

\* the place of a state in states_to_fix
Place(s) == CHOOSE k \in 1..Len(states_to_fix) : states_to_fix[k] = s

BracketsStart ==
  /\ idx = 1
  /\ pcB = "loop"
  /\ log = <<>>
  /\ nreads = [s \in States |-> 0]
  /\ nwrites = [s \in States |-> 0]
  /\ files0 = files
  /\ bruns = 0

PhasesIdle ==
  /\ disk = <<>> /\ pc = "idle" /\ lines = <<>> /\ i = 1
  /\ updated_lines = <<>> /\ in_push_call = FALSE /\ push_call_lines = <<>>
  /\ push_call_start_line = 0 /\ calls = <<>>
  /\ wrote = FALSE /\ runs = 0

BracketsIdle ==
  /\ files = [s \in States |-> Missing] /\ idx = 1 /\ pcB = "idle"
  /\ log = <<>> /\ nreads = [s \in States |-> 0]
  /\ nwrites = [s \in States |-> 0] /\ files0 = files /\ bruns = 0

\* the file of update_diagnostic_phases.py is any of the input files
InitPhases ==
  /\ disk \in InputFiles
  /\ PhasesStart
  /\ BracketsIdle

\* one state has a file, with any of the texts
InitBrackets ==
  /\ \E s \in States : \E c \in Contents(s) :
       files = [t \in States |-> IF t = s THEN c ELSE Missing]
  /\ BracketsStart
  /\ PhasesIdle

\* each of the first MaxFiles states has a file or not, in any condition
InitBatch ==
  /\ \E cond \in [1..MaxFiles -> Conditions] :
       files = [s \in States |->
                  IF Place(s) <= MaxFiles THEN BatchContent(s, cond[Place(s)])
                  ELSE Missing]
  /\ BracketsStart
  /\ PhasesIdle

(***************************************************************************)
(* Specifications                                                          *)
(***************************************************************************)
\* one run of update_diagnostic_phases.py
NextPhases ==
  ReadFile \/ StepStart \/ StepAppend \/ StepClose \/ StepCopy \/ WriteFile
SpecPhases == InitPhases /\ [][NextPhases]_vars

\* update_diagnostic_phases.py run up to MaxRuns times on the same file
NextPhasesTwice ==
  ReadFile \/ StepStart \/ StepAppend \/ StepClose \/ StepCopy \/ WriteFile
    \/ RunAgain
SpecPhasesTwice == InitPhases /\ [][NextPhasesTwice]_vars

\* one run of fix-state-brackets.py over files in any condition
NextBatch == FileNotFound \/ CouldNotFind \/ NoChanges \/ Fixed \/ Complete
SpecBatch == InitBatch /\ [][NextBatch]_vars

\* fix-state-brackets.py run up to MaxRuns times on one state's file
NextBrackets ==
  FileNotFound \/ CouldNotFind \/ NoChanges \/ Fixed \/ Complete \/ RunAgainB
SpecBrackets == InitBrackets /\ [][NextBrackets]_vars

(***************************************************************************)
(* Properties                                                              *)
(***************************************************************************)
CloseToken == <<")", ";">>

Labels == {PHASE_MAPPINGS[k][3] : k \in 1..Len(PHASE_MAPPINGS)}

\* line b is line a, or line a with one phase text inserted
LineKept(a, b) ==
  \/ a = b
  \/ \E p \in 0..Len(a) : \E l \in Labels :
       b \in {PyInsert(a, p, PhaseField(l)), PyInsert(a, p, PhaseObject(l))}

\* C1: when main() has written the file, the written lines are the lines
\* read, in their order, none deleted, duplicated or moved, each one as it
\* was or with a phase text inserted.
ScopedEdit ==
  (pc = "done") =>
    LET before == lines
        after == SplitLines(disk)
    IN /\ Len(after) = Len(before)
       /\ \A k \in 1..Len(before) : LineKept(before[k], after[k])

\* C2: a second run of main() on the file the first run wrote leaves the
\* text as it is, and returns every span it processes unchanged.
Idempotent ==
  (pc = "done" /\ runs >= 2) =>
    /\ disk = Join(lines)
    /\ \A k \in 1..Len(calls) : calls[k].result = calls[k].span

\* C3: a second run of fix-state-brackets.py on the files the first run
\* left writes no file, reports no state as patched and leaves every text
\* as it is.
BracketsIdempotent ==
  (pcB = "done" /\ bruns >= 2) =>
    /\ files = files0
    /\ \A s \in States : nwrites[s] = 0
    /\ \A k \in 1..Len(log) : log[k].outcome # "Patched"

\* C4: the text of a patched state holds the two statements, each ended by
\* its ";": the intermediate value, and the call of the bound identifier on
\* fullBrackets.
SubstitutionCorrect ==
  \A k \in 1..Len(log) :
    log[k].outcome = "Patched" =>
      LET s == log[k].state
          v == log[k].taxable_var
      IN /\ ContainsSub(files[s].content,
                        <<ConstFull, s, RulesSuffix, ")", ";">>)
         /\ ContainsSub(files[s].content,
                        <<ConstTax, CalcOpen, v, ",", " ", "fullBrackets",
                          ")", ";">>)

\* the closing braces of the brace-delimited groups of a span
GroupEnds(s) ==
  {b \in 1..Len(s) : s[b] = "}" /\ \E a \in 1..(b - 1) : s[a] = "{"}

\* C5: a span without "phase:" whose start line has a label gets the phase
\* field before the closing brace of its brace group; without a group, the
\* phase object after its code token; without either, it is unchanged.
InsertionRule ==
  \A k \in 1..Len(calls) :
    LET s == calls[k].span
        l == get_phase_for_line(calls[k].line_num)
        codes == {c \in 1..Len(s) : s[c] \in CodeTokens}
    IN (~Contains(s, "phase:") /\ l # None) =>
         IF GroupEnds(s) # {}
         THEN \E b \in GroupEnds(s) :
                calls[k].result = PyInsert(s, b - 1, PhaseField(l))
         ELSE IF codes # {}
         THEN \E c \in codes : calls[k].result = PyInsert(s, c, PhaseObject(l))
         ELSE calls[k].result = s

\* C6: every span handed to add_phase_to_diagnostic runs from a line with a
\* trigger through the first line from there on, the trigger line counted,
\* that holds ");".
SpanBoundary ==
  \A k \in 1..Len(calls) :
    LET from == calls[k].line_num
        ends == {e \in from..Len(lines) : ContainsSub(lines[e], CloseToken)}
    IN /\ from \in 1..Len(lines)
       /\ Contains(lines[from], "pushWarning(")
            \/ Contains(lines[from], "pushError(")
       /\ ends # {}
       /\ calls[k].span = Join(SubSeq(lines, from, SetMin(ends)))

\* C7: main() writes the file only when the new text differs from the text
\* it read.
WriteOnlyWhenPatched == wrote => disk # Join(lines)

\* the outcome each condition of a file must give
ExpectedOutcome(s, f) ==
  CASE f = BatchContent(s, "missing") -> "MissingFile"
    [] f = BatchContent(s, "no match") -> "NotFound"
    [] f = BatchContent(s, "other statement") -> "NoChanges"
    [] f = BatchContent(s, "prior form") -> "Patched"

\* C8: the states are processed once each in list order, each with the one
\* outcome its own file decides; a missing file is neither read nor
\* written; only a patched file is written; the files of the other states
\* are as the run found them; the loop never stops before the last state.
FailureIsolation ==
  /\ Len(log) = idx - 1
  /\ \A k \in 1..Len(log) :
       LET s == states_to_fix[k] IN
       /\ log[k].state = s
       /\ log[k].outcome = ExpectedOutcome(s, files0[s])
       /\ ~files0[s].exists => nreads[s] = 0 /\ nwrites[s] = 0
       /\ nwrites[s] = IF log[k].outcome = "Patched" THEN 1 ELSE 0
       /\ log[k].outcome # "Patched" => files[s] = files0[s]
  /\ \A k \in (Len(log) + 1)..Len(states_to_fix) :
       LET s == states_to_fix[k] IN
       files[s] = files0[s] /\ nreads[s] = 0 /\ nwrites[s] = 0
  /\ (pcB = "done") => Len(log) = Len(states_to_fix)
  /\ (pcB = "loop") => ENABLED NextBatch

\* the first state is patched, the second has no file, the run is complete
FailureIsolationWitness ==
  /\ pcB = "done"
  /\ log[1].outcome = "Patched"
  /\ log[2].outcome = "MissingFile"
  /\ \E k \in 3..Len(log) : log[k].outcome = "Patched"

\* the trigger lines that no later line with ");" follows
OpenAtEnd ==
  {t \in 1..Len(lines) :
     /\ Contains(lines[t], "pushWarning(") \/ Contains(lines[t], "pushError(")
     /\ \A k \in (t + 1)..Len(lines) : ~ContainsSub(lines[k], CloseToken)}

\* C9: the last line of every text handed to add_phase_to_diagnostic holds
\* ");", and when the file ends inside a call, no text handed over reaches
\* the trigger line of that call.
SpanSafety ==
  /\ \A k \in 1..Len(calls) :
       LET ls == SplitLines(calls[k].span)
       IN ContainsSub(ls[Len(ls)], CloseToken)
  /\ (pc = "done") =>
       \A t \in OpenAtEnd : \A k \in 1..Len(calls) : calls[k].at < t

\* a call was processed, and the file ends inside a later call
SpanSafetyWitness ==
  /\ pc = "done"
  /\ calls # <<>>
  /\ OpenAtEnd # {}
  /\ in_push_call

\* the label of the first entry of PHASE_MAPPINGS that holds n
FirstMatchLabel(n) ==
  LET hits == {k \in 1..Len(PHASE_MAPPINGS) :
                 PHASE_MAPPINGS[k][1] <= n /\ n <= PHASE_MAPPINGS[k][2]}
  IN IF hits = {} THEN None ELSE PHASE_MAPPINGS[SetMin(hits)][3]

\* C10: get_phase_for_line gives the label of the first entry that holds
\* the line number, None when no entry does, 'credits' on line 1100; the
\* line number passed for a span is the 1-based number of its trigger line
\* and the label inserted is the one of that line.
FirstMatchResolution ==
  /\ get_phase_for_line(i) = FirstMatchLabel(i)
  /\ (i = 1100) => get_phase_for_line(i) = "credits"
  /\ \A k \in 1..Len(calls) :
       LET c == calls[k]
           trigger == c.at - Len(SplitLines(c.span)) + 1
           l == FirstMatchLabel(trigger)
       IN /\ c.line_num = trigger
          /\ Contains(lines[trigger], "pushWarning(")
               \/ Contains(lines[trigger], "pushError(")
          /\ (l = None) => c.result = c.span
          /\ (c.result # c.span) =>
               /\ ContainsSub(c.result, <<"phase:", " ", "'", l, "'">>)
               /\ \A m \in Labels \ {l} : ~Contains(c.result, m)

\* a call that starts on line 1100 got the label 'credits'
FirstMatchWitness ==
  \E k \in 1..Len(calls) :
    /\ calls[k].line_num = 1100
    /\ ContainsSub(calls[k].result, <<"phase:", " ", "'", "credits", "'">>)

====
